---- MODULE Spec2Model ----
(***************************************************************************)
(* Model of the game tree, its path-addressed editor and its PGN codec as  *)
(* implemented by the AnalysisBoard component                              *)
(* (src/src/components/AnalysisBoard.jsx).                                 *)
(*                                                                         *)
(* One action of the model is one event handler of the component together  *)
(* with the render it causes and the effects that render schedules: React  *)
(* runs them to completion before it handles the next event.               *)
(*                                                                         *)
(* The render-only fields of a node (`id`, used as a React key, and        *)
(* `move`, the verbose move object of chess.js) are not part of the        *)
(* modelled node: no handler reads them.                                   *)
(***************************************************************************)
EXTENDS Integers, Sequences, FiniteSets, TLC

VARIABLES
  tree,                \* useImmer state: the game tree (a nested record)
  currentPath,         \* useState: the navigation path, 0-based child indices
  currentStartingFen,  \* useState: the position replay starts from
  comment,             \* useState: the comment buffer shown in the textarea
  pgnInput,            \* useState: the PGN text buffer
  contextMenu,         \* useState: the open context menu and the path it is for
  startingFen,         \* prop: explicit starting position (NoFen when absent)
  startingPgn,         \* prop: starting PGN text (empty when absent)
  lastPgnChange,       \* payload of the last onPgnChange notification
  crashed,             \* a render threw: the component is unmounted
  last                 \* the last event handled and how it ended

vars == <<tree, currentPath, currentStartingFen, comment, pgnInput, contextMenu,
          startingFen, startingPgn, lastPgnChange, crashed, last>>

(***************************************************************************)
(* Bounds of the model.                                                    *)
(***************************************************************************)
\* largest number of moves (non-root nodes) a tree may hold
MaxNodes == 3
\* largest number of nodes carrying a non-empty comment
MaxComments == 1

Null == "null"

\* the element of a one-element set; { e(x) : x \in {v} } computes v once
\* for all its uses in e
The(S) == CHOOSE x \in S : TRUE

(***************************************************************************)
(* Rules Adapter (chess.js).  A position is the starting position it       *)
(* descends from and the moves played since; a fragment of chess with      *)
(* three opening moves per side and one knight retreat stands for the      *)
(* rules.                                                                  *)
(***************************************************************************)
Fen(base, line) == [base |-> base, line |-> line]

\* new Chess().fen()
StandardFen == Fen("std", <<>>)
\* a custom position with White to move, one with Black to move
FenX == Fen("X", <<>>)
FenB == Fen("B", <<>>)
\* a string that is no position
FenBad == Fen("bad", <<>>)
\* the absent startingFen prop
NoFen == Fen(Null, <<>>)

WhiteSans == {"e4", "d4", "Nf3", "Ng1"}
BlackSans == {"e5", "c5"}

\* new Chess(fen) does not throw
ValidFen(fen) == fen.base \in {"std", "X", "B"}

Turn(fen) ==
  LET first == IF fen.base = "B" THEN "b" ELSE "w"
  IN IF Len(fen.line) % 2 = 0 THEN first ELSE (IF first = "w" THEN "b" ELSE "w")

Played(fen, san) == \E i \in 1..Len(fen.line) : fen.line[i] = san

\* the canonical SAN `san` is a legal move in position `fen`
LegalSan(fen, san) ==
  /\ ValidFen(fen)
  /\ IF Turn(fen) = "w" THEN san \in WhiteSans ELSE san \in BlackSans
  /\ ~Played(fen, san)
  /\ (san = "Ng1" => Played(fen, "Nf3"))

\* game.fen() after game.move(san)
FenAfter(fen, san) == Fen(fen.base, Append(fen.line, san))

\* the SAN chess.js gives a piece drop from one square to another
DropSan(sourceSquare, targetSquare) ==
  CASE <<sourceSquare, targetSquare>> = <<"e2", "e4">> -> "e4"
    [] <<sourceSquare, targetSquare>> = <<"d2", "d4">> -> "d4"
    [] <<sourceSquare, targetSquare>> = <<"g1", "f3">> -> "Nf3"
    [] <<sourceSquare, targetSquare>> = <<"f3", "g1">> -> "Ng1"
    [] <<sourceSquare, targetSquare>> = <<"e7", "e5">> -> "e5"
    [] <<sourceSquare, targetSquare>> = <<"c7", "c5">> -> "c5"
    [] OTHER -> Null

\* the piece drops the model tries; the last one is legal in no position
Drops == {<<"e2", "e4">>, <<"d2", "d4">>, <<"g1", "f3">>, <<"f3", "g1">>,
          <<"e7", "e5">>, <<"c7", "c5">>, <<"e2", "e5">>}

\* the SAN chess.js gives a move written in PGN text (the permissive parser
\* accepts an over-disambiguated move and returns its canonical SAN)
NotationSan(notation) == IF notation = "Ng1f3" THEN "Nf3" ELSE notation

(***************************************************************************)
(* Game tree and Path Resolver.                                            *)
(***************************************************************************)
Node(san, text, fen, ply, children) ==
  [san |-> san, comment |-> text, fen |-> fen, ply |-> ply, children |-> children]

\* a root that counts as the first half-move
RootPlyZero(fen) == Node(Null, "", fen, 0, <<>>)

\* the fresh root the component starts from and resets to
Root(fen) == Node(Null, "", fen, -1, <<>>)

RECURSIVE ValidPath(_, _)
\* every index of `path` is in range at its level
ValidPath(path, sourceTree) ==
  IF path = <<>> THEN TRUE
  ELSE /\ Head(path) >= 0
       /\ Head(path) < Len(sourceTree.children)
       /\ ValidPath(Tail(path), sourceTree.children[Head(path) + 1])

RECURSIVE getNode(_, _)
\* the node at a valid path
getNode(path, sourceTree) ==
  IF path = <<>> THEN sourceTree
  ELSE getNode(Tail(path), sourceTree.children[Head(path) + 1])

RECURSIVE ReplayOk(_, _, _)
\* getFenForPath does not throw: every stored SAN replays from `fen`
ReplayOk(path, sourceTree, fen) ==
  IF path = <<>> THEN TRUE
  ELSE LET child == sourceTree.children[Head(path) + 1]
       IN /\ LegalSan(fen, child.san)
          /\ ReplayOk(Tail(path), child, FenAfter(fen, child.san))

RECURSIVE getFenForPath(_, _, _)
\* the position reached by replaying the path from `fen`
getFenForPath(path, sourceTree, fen) ==
  IF path = <<>> THEN fen
  ELSE LET child == sourceTree.children[Head(path) + 1]
       IN getFenForPath(Tail(path), child, FenAfter(fen, child.san))

RECURSIVE ReplaceAt(_, _, _)
\* the tree with the node at `path` replaced (one immer draft mutation)
ReplaceAt(sourceTree, path, node) ==
  IF path = <<>> THEN node
  ELSE [sourceTree EXCEPT !.children[Head(path) + 1] =
          ReplaceAt(@, Tail(path), node)]

RECURSIVE TreeSize(_)
RECURSIVE ForestSize(_)
\* number of moves below a node
TreeSize(node) == ForestSize(node.children)
ForestSize(nodes) ==
  IF nodes = <<>> THEN 0
  ELSE 1 + TreeSize(Head(nodes)) + ForestSize(Tail(nodes))

RECURSIVE Commented(_)
RECURSIVE CommentedIn(_)
\* number of nodes with a non-empty comment
Commented(node) == (IF node.comment = "" THEN 0 ELSE 1) + CommentedIn(node.children)
CommentedIn(nodes) ==
  IF nodes = <<>> THEN 0 ELSE Commented(Head(nodes)) + CommentedIn(Tail(nodes))

RECURSIVE Paths(_)
\* the paths of all nodes of a tree, the root's included
Paths(node) ==
  {<<>>} \cup UNION { { <<i - 1>> \o p : p \in Paths(node.children[i]) } :
                      i \in 1..Len(node.children) }

\* path.slice(0, -1); the empty path stays empty
ParentPath(path) == IF path = <<>> THEN <<>> ELSE SubSeq(path, 1, Len(path) - 1)

\* Array.prototype.findIndex(child => child.san === san), 0-based, -1 if none
FindIndex(children, san) ==
  IF \E i \in 1..Len(children) : children[i].san = san
  THEN (CHOOSE i \in 1..Len(children) :
          /\ children[i].san = san
          /\ \A j \in 1..(i - 1) : children[j].san # san) - 1
  ELSE -1

\* Array.prototype.splice(index, 1): the array without the element at `index`
SpliceOut(children, index) ==
  IF index < 0 \/ index >= Len(children) THEN children
  ELSE SubSeq(children, 1, index) \o SubSeq(children, index + 2, Len(children))

(***************************************************************************)
(* PGN text.  A text is a sequence of atoms, each a run of characters the  *)
(* codec never splits: a space, the blank line after the headers, a FEN    *)
(* header line, a move number, a move, a brace, a comment's words, a       *)
(* parenthesis, the termination marker.                                    *)
(***************************************************************************)
Sp == " "
Nl == "\n\n"

\* `[FEN "${fen}"]`
FenTag(base) == "[FEN \"" \o base \o "\"]"
\* the position a FEN header line names
TagValue(a) == CHOOSE base \in {"std", "X", "B", "bad"} : FenTag(base) = a

NumAtoms == {ToString(n) \o dots : n \in 1..9, dots \in {".", "..."}}
SanAtoms == WhiteSans \cup BlackSans \cup {"Ng1f3"}
TagAtoms == {FenTag(base) : base \in {"std", "X", "B", "bad"}}

\* what the characters of an atom make it
Kind(a) ==
  CASE a = Sp -> "sp"
    [] a = Nl -> "nl"
    [] a = "(" -> "lp"
    [] a = ")" -> "rp"
    [] a = "{" -> "lb"
    [] a = "}" -> "rb"
    [] a = "*" -> "res"
    [] a \in NumAtoms -> "num"
    [] a \in SanAtoms -> "san"
    [] a \in TagAtoms -> "tag"
    [] OTHER -> "txt"

IsSpace(a) == a \in {Sp, Nl}

RECURSIVE TrimStart(_)
TrimStart(text) ==
  IF text # <<>> /\ IsSpace(Head(text)) THEN TrimStart(Tail(text)) ELSE text

RECURSIVE TrimEnd(_)
TrimEnd(text) ==
  IF text # <<>> /\ IsSpace(text[Len(text)])
  THEN TrimEnd(SubSeq(text, 1, Len(text) - 1)) ELSE text

\* String.prototype.trim()
Trim(text) == The({ The({ TrimEnd(s) : s \in {TrimStart(t)} }) : t \in {text} })

\* the last character of a non-empty text
LastChar(text) ==
  LET a == text[Len(text)]
  IN CASE a = "Ng1" -> "1"
       [] a = "e4" -> "4"
       [] a = "d4" -> "4"
       [] a = "Nf3" -> "3"
       [] a = "e5" -> "5"
       [] a = "c5" -> "5"
       [] OTHER -> a

\* the character class of /[10\/\-]$/
ResultLike(c) == c \in {"1", "0", "/", "-"}

\* `${n}. ` and `${n}... `
MoveNumber(n) == <<ToString(n) \o ".", Sp>>
MoveNumberBlack(n) == <<ToString(n) \o "...", Sp>>

\* `{ ${comment} } ` when the comment is non-empty
CommentPgn(text) ==
  IF text # "" THEN <<"{", Sp, text, Sp, "}", Sp>>
  ELSE <<>>

(***************************************************************************)
(* PGN Encoder.                                                            *)
(***************************************************************************)
RECURSIVE generatePgnRecursive(_)
RECURSIVE VariationsPgn(_, _)

\* the parenthesised lines of node.children[i..], in index order
VariationsPgn(node, i) ==
  IF i > Len(node.children) THEN <<>>
  ELSE LET variation == node.children[i]
           variationPgn ==
             (IF variation.ply % 2 # 0
              THEN MoveNumberBlack((variation.ply \div 2) + 1) ELSE <<>>)
             \o <<variation.san, Sp>>
             \o CommentPgn(variation.comment)
             \o generatePgnRecursive(variation)
       IN <<"(">> \o Trim(variationPgn) \o <<")", Sp>>
          \o VariationsPgn(node, i + 1)

RECURSIVE generatePgnMainLine(_)
\* an encoder that writes the main line and leaves the variations out
generatePgnMainLine(node) ==
  IF Len(node.children) = 0 THEN <<>>
  ELSE LET mainLine == node.children[1]
       IN (IF mainLine.ply % 2 = 0 THEN MoveNumber((mainLine.ply \div 2) + 1) ELSE <<>>)
          \o <<mainLine.san, Sp>>
          \o CommentPgn(mainLine.comment)
          \o generatePgnMainLine(mainLine)

RECURSIVE generatePgnVariationsLast(_)
\* an encoder that continues the main line before it writes the variations
generatePgnVariationsLast(node) ==
  IF Len(node.children) = 0 THEN <<>>
  ELSE LET mainLine == node.children[1]
       IN (IF mainLine.ply % 2 = 0 THEN MoveNumber((mainLine.ply \div 2) + 1) ELSE <<>>)
          \o <<mainLine.san, Sp>>
          \o CommentPgn(mainLine.comment)
          \o generatePgnVariationsLast(mainLine)
          \o VariationsPgn(node, 2)

\* node.children[0] is the main line, the others are its variations
generatePgnRecursive(node) ==
  IF Len(node.children) = 0 THEN <<>>
  ELSE LET mainLine == node.children[1]
       IN (IF mainLine.ply % 2 = 0 THEN MoveNumber((mainLine.ply \div 2) + 1) ELSE <<>>)
          \o <<mainLine.san, Sp>>
          \o CommentPgn(mainLine.comment)
          \o VariationsPgn(node, 2)
          \o generatePgnRecursive(mainLine)

RECURSIVE EncodeOk(_)
\* generatePgnRecursive does not throw: it replays every variation's move
\* from the position stored in the variation's parent
EncodeOk(node) ==
  \A i \in 1..Len(node.children) :
     /\ i >= 2 => LegalSan(node.fen, node.children[i].san)
     /\ EncodeOk(node.children[i])

\* a PGN effect that takes the header from the position stored in the root
FullPgnRootFen(sourceTree, fen) ==
  The({ The({ IF pgnString = <<>> THEN fullPgn \o <<Sp, "*">>
              ELSE IF LastChar(fullPgn) # "*" /\ ~ResultLike(LastChar(fullPgn))
                   THEN fullPgn \o <<Sp, "*">>
              ELSE fullPgn
              : fullPgn \in {(IF sourceTree.fen # StandardFen
                              THEN <<FenTag(sourceTree.fen.base), Nl>> ELSE <<>>)
                             \o pgnString} })
        : pgnString \in {Trim(generatePgnRecursive(sourceTree))} })

\* the text the PGN effect puts in the buffer and hands to onPgnChange
FullPgn(sourceTree, fen) ==
  The({ The({ IF pgnString = <<>> THEN fullPgn \o <<Sp, "*">>
              ELSE IF LastChar(fullPgn) # "*" /\ ~ResultLike(LastChar(fullPgn))
                   THEN fullPgn \o <<Sp, "*">>
              ELSE fullPgn
              : fullPgn \in {(IF fen # StandardFen
                              THEN <<FenTag(fen.base), Nl>> ELSE <<>>) \o pgnString} })
        : pgnString \in {Trim(generatePgnRecursive(sourceTree))} })

(***************************************************************************)
(* Grammar Parser (@mliebelt/pgn-parser, startRule 'game').  The result    *)
(* is the tags and the list of main-line moves, each with its comments     *)
(* (the text between the braces, spaces included) and its variations.      *)
(***************************************************************************)
At(text, i) == IF i >= 1 /\ i <= Len(text) THEN Kind(text[i]) ELSE "eof"

RECURSIVE SkipWs(_, _)
SkipWs(text, i) == IF At(text, i) \in {"sp", "nl"} THEN SkipWs(text, i + 1) ELSE i

\* past the spaces and the move number, if there is one
SkipNumber(text, i) ==
  The({ IF At(text, n) = "num" THEN n + 1 ELSE n : n \in {SkipWs(text, i)} })

RECURSIVE CommentEnd(_, _)
\* the index of the brace closing a comment, 0 if there is none
CommentEnd(text, i) ==
  IF i > Len(text) THEN 0
  ELSE IF text[i] = "}" THEN i ELSE CommentEnd(text, i + 1)

ParseFail == [ok |-> FALSE, val |-> <<>>, next |-> 0]

\* an optional comment
ParseComment(text, i) ==
  The({ IF At(text, j) # "lb" THEN [ok |-> TRUE, val |-> <<>>, next |-> j]
        ELSE The({ IF e = 0 THEN ParseFail
                   ELSE [ok |-> TRUE, val |-> SubSeq(text, j + 1, e - 1), next |-> e + 1]
                   : e \in {CommentEnd(text, j + 1)} })
        : j \in {SkipWs(text, i)} })

RECURSIVE ParseLine(_, _)
RECURSIVE ParseMove(_, _)
RECURSIVE ParseVariations(_, _)

\* one move: comment? number? comment? move comment? variations
ParseMove(text, i) ==
  The({ IF ~cb.ok THEN ParseFail ELSE
  The({ IF ~cm.ok THEN ParseFail ELSE
  The({ IF At(text, j) # "san" THEN ParseFail ELSE
  The({ IF ~ca.ok THEN ParseFail ELSE
  The({ IF ~vs.ok THEN ParseFail
        ELSE [ok |-> TRUE,
              val |-> [notation |-> text[j], commentBefore |-> cb.val,
                       commentMove |-> cm.val, commentAfter |-> ca.val,
                       variations |-> vs.val],
              next |-> vs.next]
        : vs \in {ParseVariations(text, ca.next)} })
        : ca \in {ParseComment(text, j + 1)} })
        : j \in {SkipWs(text, cm.next)} })
        : cm \in {ParseComment(text, SkipNumber(text, cb.next))} })
        : cb \in {ParseComment(text, i)} })

\* the parenthesised lines that follow a move
ParseVariations(text, i) ==
  The({ IF At(text, j) # "lp" THEN [ok |-> TRUE, val |-> <<>>, next |-> j] ELSE
  The({ IF ~line.ok \/ line.val = <<>> THEN ParseFail ELSE
  The({ IF At(text, k) # "rp" THEN ParseFail ELSE
  The({ IF ~rest.ok THEN ParseFail
        ELSE [ok |-> TRUE, val |-> <<line.val>> \o rest.val, next |-> rest.next]
        : rest \in {ParseVariations(text, k + 1)} })
        : k \in {SkipWs(text, line.next)} })
        : line \in {ParseLine(text, j + 1)} })
        : j \in {SkipWs(text, i)} })

\* a list of moves, up to a closing parenthesis, a result or the end
ParseLine(text, i) ==
  The({ IF At(text, j) \in {"eof", "rp", "res"}
        THEN [ok |-> TRUE, val |-> <<>>, next |-> j]
        ELSE IF At(text, j) \notin {"lb", "num", "san"} THEN ParseFail ELSE
  The({ IF ~m.ok THEN ParseFail ELSE
  The({ IF ~rest.ok THEN ParseFail
        ELSE [ok |-> TRUE, val |-> <<m.val>> \o rest.val, next |-> rest.next]
        : rest \in {ParseLine(text, m.next)} })
        : m \in {ParseMove(text, j)} })
        : j \in {SkipWs(text, i)} })

RECURSIVE ParseTags(_, _, _)
\* the header lines: the value of the last FEN tag, Null if there is none
ParseTags(text, i, fen) ==
  The({ IF At(text, j) = "tag" THEN ParseTags(text, j + 1, TagValue(text[j]))
        ELSE [FEN |-> fen, next |-> j]
        : j \in {SkipWs(text, i)} })

\* the game a text without headers, from index i on, spells
ParseGame(text, i, fen) ==
  The({ IF ~line.ok THEN [status |-> "throw", tags |-> [FEN |-> Null], moves |-> <<>>] ELSE
  The({ IF At(text, IF At(text, k) = "res" THEN SkipWs(text, k + 1) ELSE k) = "eof"
        THEN [status |-> "ok", tags |-> [FEN |-> fen], moves |-> line.val]
        ELSE [status |-> "throw", tags |-> [FEN |-> Null], moves |-> <<>>]
        : k \in {SkipWs(text, line.next)} })
        : line \in {ParseLine(text, i)} })

\* parse(text, { startRule: 'game' }): status "null" for the empty text,
\* "throw" for a syntax error
parse(text) ==
  IF text = <<>> THEN [status |-> "null", tags |-> [FEN |-> Null], moves |-> <<>>]
  ELSE The({ ParseGame(text, t.next, t.FEN) : t \in {ParseTags(text, 1, Null)} })

(***************************************************************************)
(* PGN Decoder.                                                            *)
(***************************************************************************)
RECURSIVE Flatten(_)
\* the string a run of atoms spells
Flatten(text) == IF text = <<>> THEN "" ELSE Head(text) \o Flatten(Tail(text))

RECURSIVE JoinSpace(_)
\* Array.prototype.join(' ')
JoinSpace(parts) ==
  IF parts = <<>> THEN <<>>
  ELSE IF Len(parts) = 1 THEN Head(parts)
  ELSE Head(parts) \o <<Sp>> \o JoinSpace(Tail(parts))

\* the comment of a decoded move: the comments present, joined and trimmed
MoveComment(move) ==
  Flatten(Trim(JoinSpace(
    (IF move.commentBefore # <<>> THEN <<move.commentBefore>> ELSE <<>>)
    \o (IF move.commentMove # <<>> THEN <<move.commentMove>> ELSE <<>>)
    \o (IF move.commentAfter # <<>> THEN <<move.commentAfter>> ELSE <<>>))))

RECURSIVE addMovesToNode(_, _)
RECURSIVE addVariations(_, _)
RECURSIVE addMovesSkippingIllegal(_, _)
RECURSIVE addMovesVariationsFirst(_, _)

\* a loop that skips a move the rules adapter rejects and goes on with the
\* rest of the line
addMovesSkippingIllegal(currentParentNode, moves) ==
  IF moves = <<>> THEN [ok |-> TRUE, node |-> currentParentNode]
  ELSE
  LET move == Head(moves)
      san == NotationSan(move.notation)
      fen == currentParentNode.fen
      index == Len(currentParentNode.children) + 1
  IN IF ~LegalSan(fen, san) THEN addMovesSkippingIllegal(currentParentNode, Tail(moves))
     ELSE
  The({
  The({
  The({ [ok |-> TRUE, node |-> [varied.node EXCEPT !.children[index] = rest.node]]
        : rest \in {addMovesSkippingIllegal(newNode, Tail(moves))} })
        : varied \in {addVariations(
                        [currentParentNode EXCEPT !.children = Append(@, newNode)],
                        move.variations)} })
        : newNode \in {Node(san, "", FenAfter(fen, san),
                            currentParentNode.ply + 1, <<>>)} })

\* a loop that decodes the variations of a move before it pushes the move's
\* node, so that the variation heads come before the move among the children
addMovesVariationsFirst(currentParentNode, moves) ==
  IF moves = <<>> THEN [ok |-> TRUE, node |-> currentParentNode]
  ELSE
  LET move == Head(moves)
      san == NotationSan(move.notation)
      fen == currentParentNode.fen
  IN IF ~LegalSan(fen, san) THEN [ok |-> FALSE, node |-> currentParentNode]
     ELSE
  The({
  The({ IF ~varied.ok THEN [ok |-> FALSE, node |-> currentParentNode] ELSE
  The({ IF ~rest.ok THEN [ok |-> FALSE, node |-> currentParentNode]
        ELSE [ok |-> TRUE,
              node |-> [varied.node EXCEPT !.children = Append(@, rest.node)]]
        : rest \in {addMovesToNode(newNode, Tail(moves))} })
        : varied \in {addVariations(currentParentNode, move.variations)} })
        : newNode \in {Node(san, MoveComment(move), FenAfter(fen, san),
                            currentParentNode.ply + 1, <<>>)} })

\* the loop body over one line of moves.  ok = FALSE: chess.js threw (an
\* illegal move, or a node position that is no position), which aborts the
\* immer producer
addMovesToNode(currentParentNode, moves) ==
  IF moves = <<>> THEN [ok |-> TRUE, node |-> currentParentNode]
  ELSE
  LET move == Head(moves)
      san == NotationSan(move.notation)
      fen == currentParentNode.fen
      index == Len(currentParentNode.children) + 1
  IN IF ~LegalSan(fen, san) THEN [ok |-> FALSE, node |-> currentParentNode]
     ELSE
  The({
  The({ IF ~varied.ok THEN [ok |-> FALSE, node |-> currentParentNode] ELSE
  The({ IF ~rest.ok THEN [ok |-> FALSE, node |-> currentParentNode]
        ELSE [ok |-> TRUE, node |-> [varied.node EXCEPT !.children[index] = rest.node]]
        : rest \in {addMovesToNode(newNode, Tail(moves))} })
        : varied \in {addVariations(
                        [currentParentNode EXCEPT !.children = Append(@, newNode)],
                        move.variations)} })
        : newNode \in {Node(san, MoveComment(move), FenAfter(fen, san),
                            currentParentNode.ply + 1, <<>>)} })

\* move.variations.forEach(variation => addMovesToNode(lastNodeForThisLine, variation))
addVariations(parentNode, variations) ==
  IF variations = <<>> THEN [ok |-> TRUE, node |-> parentNode]
  ELSE The({ IF ~first.ok THEN first ELSE addVariations(first.node, Tail(variations))
             : first \in {addMovesToNode(parentNode, Head(variations))} })


(***************************************************************************)
(* State, renders and effects.                                             *)
(***************************************************************************)
NoMenu == [open |-> FALSE, path |-> <<>>]
Menu(path) == [open |-> TRUE, path |-> path]

Last(op, path, san, result, error) ==
  [op |-> op, path |-> path, san |-> san, result |-> result, error |-> error]

\* the comments the user types
Comments == {"", "good"}

Init ==
  /\ tree = Root(StandardFen)
  /\ currentPath = <<>>
  /\ currentStartingFen = StandardFen
  /\ comment = ""
  /\ pgnInput = FullPgn(Root(StandardFen), StandardFen)
  /\ contextMenu = NoMenu
  /\ startingFen = NoFen
  /\ startingPgn = <<>>
  /\ lastPgnChange = FullPgn(Root(StandardFen), StandardFen)
  /\ crashed = FALSE
  /\ last = Last("mount", <<>>, Null, "ok", "none")

\* the component body runs without throwing: new Chess(currentStartingFen),
\* getNode(currentPath) and getFenForPath(currentPath)
RenderOk(t, path, fen) ==
  /\ ValidFen(fen)
  /\ ValidPath(path, t)
  /\ ReplayOk(path, t, fen)

\* a render or an effect threw: React unmounts the component, and the state
\* the handler queued is not kept
Crash(l) ==
  /\ crashed' = TRUE
  /\ last' = l
  /\ UNCHANGED <<tree, currentPath, currentStartingFen, comment, pgnInput,
                 contextMenu, startingFen, startingPgn, lastPgnChange>>

\* a PGN effect that encodes the tree of the previous render
SettleStale(t, path, fen, text, input, menu, touched, l) ==
  IF ~RenderOk(t, path, fen) \/ (touched /\ ~EncodeOk(t)) THEN Crash(l)
  ELSE
  \E reset \in {startingFen # NoFen /\ startingFen # fen} :
  \E t2 \in {IF reset THEN Root(startingFen) ELSE t} :
  \E fen2 \in {IF reset THEN startingFen ELSE fen} :
  \E fullPgn \in {IF touched \/ reset THEN FullPgn(tree, currentStartingFen)
                   ELSE input} :
     /\ tree' = t2
     /\ currentPath' = IF reset THEN <<>> ELSE path
     /\ currentStartingFen' = fen2
     /\ comment' = text
     /\ pgnInput' = fullPgn
     /\ lastPgnChange' = IF touched \/ reset THEN fullPgn ELSE lastPgnChange
     /\ contextMenu' = menu
     /\ crashed' = FALSE
     /\ last' = l
     /\ UNCHANGED <<startingFen, startingPgn>>

\* The queued state updates of one handler are rendered, then the effects
\* that render schedules run: the startingFen effect resets the tree when
\* the prop differs from the starting position, and the PGN effect
\* re-encodes the tree when the tree or the starting position is new (a
\* fresh root always encodes).
Settle(t, path, fen, text, input, menu, touched, l) ==
  IF ~RenderOk(t, path, fen) \/ (touched /\ ~EncodeOk(t)) THEN Crash(l)
  ELSE
  \E reset \in {startingFen # NoFen /\ startingFen # fen} :
  \E t2 \in {IF reset THEN Root(startingFen) ELSE t} :
  \E fen2 \in {IF reset THEN startingFen ELSE fen} :
  \E fullPgn \in {IF touched \/ reset THEN FullPgn(t2, fen2) ELSE input} :
     /\ tree' = t2
     /\ currentPath' = IF reset THEN <<>> ELSE path
     /\ currentStartingFen' = fen2
     /\ comment' = text
     /\ pgnInput' = fullPgn
     /\ lastPgnChange' = IF touched \/ reset THEN fullPgn ELSE lastPgnChange
     /\ contextMenu' = menu
     /\ crashed' = FALSE
     /\ last' = l
     /\ UNCHANGED <<startingFen, startingPgn>>

(***************************************************************************)
(* Tree Editor.                                                            *)
(***************************************************************************)
\* a findIndex that never finds
NoExistingChild(children, san) == -1

\* a lookup that answers "the main line" whenever some child matches
FirstChildIfAny(children, san) == IF FindIndex(children, san) = -1 THEN -1 ELSE 0

\* parentNode.children.findIndex(child => child.san === newNode.san)
existingChildIndex(children, san) == FindIndex(children, san)

\* parentNode.children.unshift(newNode)
UnshiftChild(children, newNode) == <<newNode>> \o children

\* parentNode.children.push(newNode)
PushChild(children, newNode) == Append(children, newNode)

\* a board that plays every drop from the starting position
gameFenFromStart == currentStartingFen

\* the position the board shows and a drop is played from
gameFen == getFenForPath(currentPath, tree, currentStartingFen)

\* a rules adapter that plays every move it can name
AnyNamedMove(drop) == DropSan(drop[1], drop[2]) # Null

\* game.move({from, to, promotion: 'q'}) succeeds
DropLegal(drop) ==
  /\ DropSan(drop[1], drop[2]) # Null
  /\ LegalSan(gameFen, DropSan(drop[1], drop[2]))

onDrop(drop) ==
  /\ ~crashed
  /\ \E san \in {DropSan(drop[1], drop[2])} :
     \E parentNode \in {getNode(currentPath, tree)} :
        IF ~DropLegal(drop)
        THEN \* game.move throws: no state update is queued
             /\ last' = Last("drop", currentPath, Null, "illegal", "none")
             /\ UNCHANGED <<tree, currentPath, currentStartingFen, comment, pgnInput,
                            contextMenu, startingFen, startingPgn, lastPgnChange,
                            crashed>>
        ELSE
        \E newNode \in {Node(san, "", FenAfter(gameFen, san), parentNode.ply + 1, <<>>)} :
        \E index \in {existingChildIndex(parentNode.children, san)} :
           IF index # -1
           THEN Settle(tree, Append(currentPath, index), currentStartingFen,
                       parentNode.children[index + 1].comment, pgnInput, contextMenu,
                       FALSE, Last("drop", currentPath, san, "existing", "none"))
           ELSE \E pushed \in {PushChild(parentNode.children, newNode)} :
                /\ TreeSize(tree) < MaxNodes
                /\ Settle(ReplaceAt(tree, currentPath,
                                    [parentNode EXCEPT !.children = pushed]),
                          Append(currentPath, Len(pushed) - 1), currentStartingFen,
                          "", pgnInput, contextMenu, TRUE,
                          Last("drop", currentPath, san, "new", "none"))

\* a click on a rendered move or on a variation button
navigateToPath(path) ==
  /\ ~crashed
  /\ ValidPath(path, tree)
  /\ Settle(tree, path, currentStartingFen, getNode(path, tree).comment, pgnInput,
            NoMenu, FALSE, Last("navigate", path, Null, "ok", "none"))

\* the navigation keys of handleKeyDown
NavigationKeys == {"jumpToStart", "jumpToEnd", "previousMove", "nextMove"}

RECURSIVE EndPath(_)
\* while (currentNode.children.length > 0): follow children[0]
EndPath(node) ==
  IF node.children = <<>> THEN <<>> ELSE <<0>> \o EndPath(node.children[1])

RECURSIVE LastLinePath(_)
\* the path that follows the last child at every level
LastLinePath(node) ==
  IF node.children = <<>> THEN <<>>
  ELSE <<Len(node.children) - 1>> \o LastLinePath(node.children[Len(node.children)])

\* a handler whose jump to the end follows the last variation
KeyPathLastLine(key) ==
  CASE key = "jumpToStart" -> {<<>>}
    [] key = "jumpToEnd" -> {LastLinePath(tree)}
    [] key = "previousMove" ->
         IF Len(currentPath) > 0 THEN {ParentPath(currentPath)} ELSE {}
    [] key = "nextMove" ->
         IF Len(getNode(currentPath, tree).children) > 0
         THEN {Append(currentPath, 0)} ELSE {}

\* the path handleKeyDown navigates to, as a set: empty when the key does
\* not navigate
KeyPath(key) ==
  CASE key = "jumpToStart" -> {<<>>}
    [] key = "jumpToEnd" -> {EndPath(tree)}
    [] key = "previousMove" ->
         IF Len(currentPath) > 0 THEN {ParentPath(currentPath)} ELSE {}
    [] key = "nextMove" ->
         IF Len(getNode(currentPath, tree).children) > 0
         THEN {Append(currentPath, 0)} ELSE {}

\* a navigation key pressed outside the input fields, settings closed
handleKeyDown(key) ==
  /\ ~crashed
  /\ IF KeyPath(key) = {}
     THEN /\ last' = Last("key", currentPath, Null, key, "none")
          /\ UNCHANGED <<tree, currentPath, currentStartingFen, comment, pgnInput,
                         contextMenu, startingFen, startingPgn, lastPgnChange,
                         crashed>>
     ELSE \E path \in KeyPath(key) :
          IF ~ValidPath(path, tree)
          THEN \* navigateToPath reads .comment of undefined
               Crash(Last("key", currentPath, Null, key, "none"))
          ELSE Settle(tree, path, currentStartingFen, getNode(path, tree).comment,
                      pgnInput, contextMenu, FALSE,
                      Last("key", currentPath, Null, key, "none"))

\* a handler that writes the comment on the parent of the current node
CommentOnParent(path) == ParentPath(path)

\* getNode(currentPath, draft).comment = newComment
CommentTarget(path) == path

handleCommentChange(newComment) ==
  /\ ~crashed
  /\ \E t \in {ReplaceAt(tree, CommentTarget(currentPath),
                        [getNode(CommentTarget(currentPath), tree)
                           EXCEPT !.comment = newComment])} :
        /\ Commented(t) <= MaxComments
        /\ Settle(t, currentPath, currentStartingFen, newComment, pgnInput,
                  contextMenu, t # tree,
                  Last("comment", currentPath, Null, "ok", "none"))

\* right click on a rendered move
handleContextMenu(path) ==
  /\ ~crashed
  /\ path # <<>>
  /\ ValidPath(path, tree)
  /\ contextMenu # Menu(path)
  /\ contextMenu' = Menu(path)
  /\ last' = Last("menu", path, Null, "ok", "none")
  /\ UNCHANGED <<tree, currentPath, currentStartingFen, comment, pgnInput,
                 startingFen, startingPgn, lastPgnChange, crashed>>

\* a click outside the menu
handleOutsideClick ==
  /\ ~crashed
  /\ contextMenu.open
  /\ contextMenu' = NoMenu
  /\ last' = Last("click", <<>>, Null, "ok", "none")
  /\ UNCHANGED <<tree, currentPath, currentStartingFen, comment, pgnInput,
                 startingFen, startingPgn, lastPgnChange, crashed>>

\* parentNode.children.splice(childIndex): the rest of the array goes too
SpliceToEnd(children, childIndex) == SubSeq(children, 1, childIndex)

\* a splice that takes the next sibling out as well
SpliceTwo(children, childIndex) == SpliceOut(SpliceOut(children, childIndex), childIndex)

\* parentNode.children.splice(childIndex, 1)
DeleteChild(children, childIndex) == SpliceOut(children, childIndex)

\* the variation and the main line change places
SwapWithMainLine(children, childIndex) ==
  [i \in 1..Len(children) |->
     IF i = 1 THEN children[childIndex + 1]
     ELSE IF i = childIndex + 1 THEN children[1] ELSE children[i]]

\* children.push(variation) in place of children.unshift(variation)
MoveToEnd(children, childIndex) ==
  SpliceOut(children, childIndex) \o <<children[childIndex + 1]>>

\* a test that never takes the early return
NeverMainLine(childIndex) == FALSE

\* if (childIndex === 0) return
AlreadyMainLine(childIndex) == childIndex = 0

\* const [variation] = children.splice(childIndex, 1); children.unshift(variation)
PromoteChild(children, childIndex) ==
  <<children[childIndex + 1]>> \o SpliceOut(children, childIndex)

\* a handler that forgets to navigate after the deletion
NoNavigation(parentPath, current) == current

\* a handler that navigates to the parent's main line after the deletion
FirstChildAfterDelete(parentPath, current) == Append(parentPath, 0)

\* navigateToPath(parentPath) after the deletion
DeleteNavigation(parentPath, current) == parentPath

\* handleDeleteMove for the menu path `path`; `confirmed` is the answer to
\* window.confirm
DeleteMove(path, confirmed) ==
  \E parentPath \in {ParentPath(path)} :
  \E childIndex \in {path[Len(path)]} :
     IF ~confirmed
     THEN /\ contextMenu' = NoMenu
          /\ last' = Last("delete", <<>>, Null, "cancelled", "none")
          /\ UNCHANGED <<tree, currentPath, currentStartingFen, comment, pgnInput,
                         startingFen, startingPgn, lastPgnChange, crashed>>
     ELSE IF ~ValidPath(parentPath, tree)
     THEN \* getNode reads .children of undefined
          Crash(Last("delete", path, Null, "threw", "none"))
     ELSE \E parentNode \in {getNode(parentPath, tree)} :
          \E t \in {ReplaceAt(tree, parentPath,
                      [parentNode EXCEPT
                         !.children = DeleteChild(parentNode.children, childIndex)])} :
             Settle(t, DeleteNavigation(parentPath, currentPath),
                    currentStartingFen, parentNode.comment,
                    pgnInput, NoMenu, t # tree,
                    Last("delete", path, Null, "deleted", "none"))

\* handlePromoteVariation for the menu path `path`
PromoteVariation(path) ==
  \E parentPath \in {ParentPath(path)} :
  \E childIndex \in {path[Len(path)]} :
     IF AlreadyMainLine(childIndex)
     THEN \* already the main line
          /\ contextMenu' = NoMenu
          /\ last' = Last("promote", path, Null, "mainline", "none")
          /\ UNCHANGED <<tree, currentPath, currentStartingFen, comment, pgnInput,
                         startingFen, startingPgn, lastPgnChange, crashed>>
     ELSE IF ~ValidPath(path, tree)
     THEN \* getNode reads .children of undefined, or undefined is unshifted
          \* into the children and the next render reads it
          Crash(Last("promote", path, Null, "threw", "none"))
     ELSE \E parentNode \in {getNode(parentPath, tree)} :
          \E t \in {ReplaceAt(tree, parentPath,
                      [parentNode EXCEPT
                         !.children = PromoteChild(parentNode.children, childIndex)])} :
             \* navigateToPath reads the comment from the tree of the render
             \* the handler was created in
             Settle(t, Append(parentPath, 0), currentStartingFen,
                    getNode(Append(parentPath, 0), tree).comment,
                    pgnInput, NoMenu, TRUE,
                    Last("promote", path, Null, "promoted", "none"))

\* the Delete item of the open context menu
handleDeleteMove(confirmed) ==
  /\ ~crashed
  /\ contextMenu.open
  /\ DeleteMove(contextMenu.path, confirmed)

\* the Promote variation item of the open context menu
handlePromoteVariation ==
  /\ ~crashed
  /\ contextMenu.open
  /\ PromoteVariation(contextMenu.path)

\* right click on a rendered move, then Delete
ClickDelete(path, confirmed) ==
  /\ ~crashed
  /\ path # <<>>
  /\ ValidPath(path, tree)
  /\ DeleteMove(path, confirmed)

\* right click on a rendered move, then Promote variation
ClickPromote(path) ==
  /\ ~crashed
  /\ path # <<>>
  /\ ValidPath(path, tree)
  /\ PromoteVariation(path)

(***************************************************************************)
(* Texts the user types into the PGN box and the embedding application     *)
(* passes as startingPgn.                                                  *)
(***************************************************************************)
\* 1. e4 { good } e5 (1... c5) *
TextVariation ==
  <<"1.", Sp, "e4", Sp, "{", Sp, "good", Sp, "}", Sp, "e5", Sp,
    "(", "1...", Sp, "c5", ")", Sp, "*">>
\* 1. e5 *            (no pawn of White's can move there)
TextIllegalFirst == <<"1.", Sp, "e5", Sp, "*">>
\* 1. e4 (1. e5) *    (legal first move, illegal move in a variation)
TextIllegalLater == <<"1.", Sp, "e4", Sp, "(", "1.", Sp, "e5", ")", Sp, "*">>
\* [FEN "X"]  1. d4 *
TextFenX == <<FenTag("X"), Nl, "1.", Sp, "d4", Sp, "*">>
\* [FEN "bad"]  1. e4 *
TextFenBad == <<FenTag("bad"), Nl, "1.", Sp, "e4", Sp, "*">>
\* ) *                (a syntax error)
TextSyntaxError == <<")", Sp, "*">>
\* [FEN "X"]          (headers, no moves)
TextNoMoves == <<FenTag("X")>>

SampleTexts == {<<>>, TextVariation, TextIllegalFirst, TextIllegalLater, TextFenX,
                TextFenBad, TextSyntaxError, TextNoMoves}

\* 1. e4 (1. e4) *    (the variation repeats the move it is a variation of)
TextRepeated == <<"1.", Sp, "e4", Sp, "(", "1.", Sp, "e4", ")", Sp, "*">>

\* the games the embedding application passes as startingPgn to an editor
TreeTexts == {TextVariation, TextRepeated}

\* the positions typed into the FEN box
FenInputs == {FenX, FenB, FenBad}

\* the values the embedding application gives the startingFen prop
StartingFenProps == {NoFen, FenX, FenB}

(***************************************************************************)
(* Decoding: the load-pgn-text action and the startingPgn effect.          *)
(***************************************************************************)
Outcome(kind, error, fen, t) == [kind |-> kind, error |-> error, fen |-> fen, tree |-> t]

\* the immer producer of both decode paths: reset the draft to a fresh root
\* and build the tree; when chess.js throws inside it no draft is installed
BuildTree(fen, moves) == addMovesToNode(Root(fen), moves)

\* loadPgnFromString(pgnString) up to the queued state updates.  kind is
\* "silent" (returns false without a report), "error" (reportError, returns
\* false), "abort" (the producer throws when React runs it) or "loaded";
\* fen is the value given to setCurrentStartingFen, NoFen if it is not called
loadPgnFromString(pgnString) ==
  IF pgnString = <<>> THEN Outcome("silent", "none", NoFen, tree)
  ELSE
  The({ IF pgnAst.status = "throw" THEN Outcome("error", "pgn_parse_error", NoFen, tree)
        ELSE IF pgnAst.status = "null" \/ pgnAst.moves = <<>>
        THEN Outcome("error", "invalid_pgn", NoFen, tree)
        ELSE
        LET hasFen == pgnAst.tags.FEN # Null
            startingFenFromPgn == IF hasFen THEN Fen(pgnAst.tags.FEN, <<>>)
                                  ELSE StandardFen
        IN The({ IF ~built.ok THEN Outcome("abort", "none", NoFen, tree)
                 ELSE Outcome("loaded", "none",
                              IF hasFen THEN startingFenFromPgn ELSE NoFen, built.node)
                 : built \in {BuildTree(startingFenFromPgn, pgnAst.moves)} })
        : pgnAst \in {parse(pgnString)} })

\* the body of the startingPgn effect up to the queued state updates, for
\* the props given
startingPgnEffect(pgn, fenProp) ==
  IF pgn = <<>> THEN Outcome("skipped", "none", NoFen, tree)
  ELSE
  The({ IF pgnAst.status = "throw" THEN Outcome("error", "pgn_parse_error", NoFen, tree)
        ELSE IF pgnAst.status = "null" \/ pgnAst.moves = <<>>
        THEN Outcome("error", "invalid_pgn", NoFen, tree)
        ELSE
        LET hasFen == pgnAst.tags.FEN # Null
            headerFen == Fen(pgnAst.tags.FEN, <<>>)
            startingFenFromPgn == IF hasFen THEN headerFen
                                  ELSE IF fenProp # NoFen THEN fenProp
                                  ELSE StandardFen
            firstMove == pgnAst.moves[1]
        IN IF hasFen /\ ~ValidFen(headerFen)
           THEN Outcome("error", "invalid_fen_in_pgn", NoFen, tree)
           ELSE IF hasFen /\ fenProp # NoFen /\ fenProp # headerFen
           THEN Outcome("error", "fen_pgn_conflict", NoFen, tree)
           ELSE IF ~LegalSan(startingFenFromPgn, NotationSan(firstMove.notation))
           THEN Outcome("error", "invalid_pgn_moves", NoFen, tree)
           ELSE The({ IF ~built.ok THEN Outcome("abort", "none", NoFen, tree)
                      ELSE Outcome("loaded", "none", startingFenFromPgn, built.node)
                      : built \in {BuildTree(startingFenFromPgn, pgnAst.moves)} })
        : pgnAst \in {parse(pgn)} })

\* a PGN box that loads the text as it is typed
handlePgnInputAutoLoad(text) ==
  /\ ~crashed
  /\ text \in SampleTexts
  /\ text # pgnInput
  /\ \E r \in {loadPgnFromString(text)} :
        IF r.kind = "loaded" /\ TreeSize(r.tree) <= MaxNodes
           /\ Commented(r.tree) <= MaxComments
        THEN Settle(r.tree, <<>>,
                    IF r.fen # NoFen THEN r.fen ELSE currentStartingFen,
                    comment, text, contextMenu, TRUE,
                    Last("type", <<>>, Null, "ok", "none"))
        ELSE /\ pgnInput' = text
             /\ last' = Last("type", <<>>, Null, "ok", "none")
             /\ UNCHANGED <<tree, currentPath, currentStartingFen, comment,
                            contextMenu, startingFen, startingPgn, lastPgnChange,
                            crashed>>

\* typing into the PGN box
handlePgnInputChange(text) ==
  /\ ~crashed
  /\ text \in SampleTexts
  /\ text # pgnInput
  /\ pgnInput' = text
  /\ last' = Last("type", <<>>, Null, "ok", "none")
  /\ UNCHANGED <<tree, currentPath, currentStartingFen, comment, contextMenu,
                 startingFen, startingPgn, lastPgnChange, crashed>>

\* the Load PGN button
handleLoadPgn ==
  /\ ~crashed
  /\ \E r \in {loadPgnFromString(pgnInput)} :
        CASE r.kind = "loaded" ->
               /\ TreeSize(r.tree) <= MaxNodes
               /\ Commented(r.tree) <= MaxComments
               /\ Settle(r.tree, <<>>,
                         IF r.fen # NoFen THEN r.fen ELSE currentStartingFen,
                         comment, pgnInput, NoMenu, TRUE,
                         Last("load", <<>>, Null, "loaded", "none"))
          [] r.kind = "abort" -> Crash(Last("load", <<>>, Null, "threw", "none"))
          [] OTHER ->
               /\ contextMenu' = NoMenu
               /\ last' = Last("load", <<>>, Null, "failed", r.error)
               /\ UNCHANGED <<tree, currentPath, currentStartingFen, comment,
                              pgnInput, startingFen, startingPgn, lastPgnChange,
                              crashed>>

\* the position typed into the FEN box and the Load FEN button
handleLoadFen(fenInput) ==
  /\ ~crashed
  /\ IF ~ValidFen(fenInput)
     THEN \* new Chess(fenInput) throws: an alert, nothing else
          /\ contextMenu' = NoMenu
          /\ last' = Last("loadFen", <<>>, Null, "failed", "none")
          /\ UNCHANGED <<tree, currentPath, currentStartingFen, comment, pgnInput,
                         startingFen, startingPgn, lastPgnChange, crashed>>
     ELSE Settle(Root(fenInput), <<>>, fenInput, comment, pgnInput, NoMenu, TRUE,
                 Last("loadFen", <<>>, Null, "loaded", "none"))

\* The effects that run when the embedding application renders the
\* component with props (fenProp, pgn): the startingFen effect, then the
\* startingPgn effect, then the render of what both queued.
RunPropEffects(fenProp, pgn, op) ==
  \E r \in {startingPgnEffect(pgn, fenProp)} :
  LET reset == fenProp # NoFen /\ fenProp # currentStartingFen
      l == Last(op, <<>>, Null, r.kind, r.error)
      t == IF r.kind = "loaded" THEN r.tree
           ELSE IF reset THEN Root(fenProp) ELSE tree
      path == IF r.kind = "loaded" \/ reset THEN <<>> ELSE currentPath
      fen == IF r.kind = "loaded" THEN r.fen
             ELSE IF reset THEN fenProp ELSE currentStartingFen
      \* the startingFen effect runs again when the starting position the
      \* render committed differs from the prop
      again == fenProp # NoFen /\ fenProp # fen
      t2 == IF again THEN Root(fenProp) ELSE t
      path2 == IF again THEN <<>> ELSE path
      fen2 == IF again THEN fenProp ELSE fen
      touched == r.kind = "loaded" \/ reset \/ again
  IN /\ startingFen' = fenProp
     /\ startingPgn' = pgn
     /\ (r.kind = "loaded" => TreeSize(r.tree) <= MaxNodes
                              /\ Commented(r.tree) <= MaxComments)
     /\ IF r.kind = "abort" \/ ~RenderOk(t, path, fen) \/ (touched /\ ~EncodeOk(t))
        THEN /\ crashed' = TRUE
             /\ last' = l
             /\ UNCHANGED <<tree, currentPath, currentStartingFen, comment, pgnInput,
                            contextMenu, lastPgnChange>>
        ELSE \E text \in {IF touched THEN FullPgn(t2, fen2) ELSE pgnInput} :
           /\ tree' = t2
           /\ currentPath' = path2
           /\ currentStartingFen' = fen2
           /\ pgnInput' = text
           /\ lastPgnChange' = IF touched THEN text ELSE lastPgnChange
           /\ crashed' = FALSE
           /\ last' = l
           /\ UNCHANGED <<comment, contextMenu>>

\* the embedding application changes startingFen or startingPgn
PropsChange(fenProp, pgn) ==
  /\ ~crashed
  /\ fenProp \in StartingFenProps
  /\ pgn \in SampleTexts
  /\ <<fenProp, pgn>> # <<startingFen, startingPgn>>
  /\ RunPropEffects(fenProp, pgn, "props")

\* the embedding application changes startingPgn and nothing else
StartingPgnChange(pgn) ==
  /\ ~crashed
  /\ pgn \in TreeTexts
  /\ pgn # startingPgn
  /\ RunPropEffects(startingFen, pgn, "props")

\* the embedding application passes a new onError function: reportError is
\* a new function, a dependency of the startingPgn effect, which runs again
OnErrorChange ==
  /\ ~crashed
  /\ startingPgn # <<>>
  /\ RunPropEffects(startingFen, startingPgn, "onError")

NextEditor ==
  \/ \E drop \in Drops : onDrop(drop)
  \/ \E path \in Paths(tree) : navigateToPath(path)
  \/ \E newComment \in Comments : handleCommentChange(newComment)
  \/ \E path \in Paths(tree) : ClickDelete(path, TRUE)
  \/ \E path \in Paths(tree) : ClickPromote(path)

\* an editing session on the board the component mounts with
Spec == Init /\ [][NextEditor]_vars

NextRoundTrip ==
  \/ \E drop \in Drops : onDrop(drop)
  \/ \E path \in Paths(tree) : navigateToPath(path)
  \/ \E fenInput \in FenInputs : handleLoadFen(fenInput)
  \/ handleLoadPgn

\* moves played from a fresh root and loads of the text the PGN box shows;
\* nobody types, so the box always holds the encoder's text
SpecRoundTrip == Init /\ [][NextRoundTrip]_vars

NextCodec ==
  \/ \E path \in Paths(tree) : navigateToPath(path)
  \/ \E text \in SampleTexts : handlePgnInputChange(text)
  \/ handleLoadPgn
  \/ \E fenInput \in FenInputs : handleLoadFen(fenInput)
  \/ \E fenProp \in StartingFenProps, pgn \in SampleTexts : PropsChange(fenProp, pgn)
  \/ OnErrorChange

\* a session of typed texts, PGN and FEN loads and prop changes
SpecCodec == Init /\ [][NextCodec]_vars

NextNotify ==
  \/ \E drop \in Drops : onDrop(drop)
  \/ \E path \in Paths(tree) : navigateToPath(path)
  \/ \E newComment \in Comments : handleCommentChange(newComment)
  \/ \E path \in Paths(tree) : ClickDelete(path, TRUE)
  \/ \E path \in Paths(tree) : ClickPromote(path)
  \/ handleLoadPgn
  \/ \E fenInput \in FenInputs : handleLoadFen(fenInput)

\* every operation that changes the tree: moves, comments, deletions,
\* promotions, loads of the text in the PGN box and loads of a position
SpecNotify == Init /\ [][NextNotify]_vars

\* the tree the embedding application may pass as startingPgn while the
\* context menu is open
MenuTexts == {<<>>, TextVariation}

NextMenu ==
  \/ \E drop \in Drops : onDrop(drop)
  \/ \E path \in Paths(tree) : navigateToPath(path)
  \/ \E path \in Paths(tree) : handleContextMenu(path)
  \/ handleOutsideClick
  \/ \E confirmed \in BOOLEAN : handleDeleteMove(confirmed)
  \/ handlePromoteVariation
  \/ \E fenProp \in StartingFenProps, pgn \in MenuTexts : PropsChange(fenProp, pgn)

\* the context menu stays open until an item or something else is clicked,
\* while the embedding application may change the props at any time
SpecMenu == Init /\ [][NextMenu]_vars

NextTree ==
  \/ \E drop \in Drops : onDrop(drop)
  \/ \E path \in Paths(tree) : navigateToPath(path)
  \/ \E newComment \in Comments : handleCommentChange(newComment)
  \/ \E path \in Paths(tree) : ClickDelete(path, TRUE)
  \/ \E path \in Paths(tree) : ClickPromote(path)
  \/ \E fenInput \in FenInputs : handleLoadFen(fenInput)
  \/ \E pgn \in TreeTexts : StartingPgnChange(pgn)

\* an editing session on trees the board, Load FEN and the startingPgn
\* prop build
SpecTree == Init /\ [][NextTree]_vars

NextKeys ==
  \/ \E drop \in Drops : onDrop(drop)
  \/ \E path \in Paths(tree) : navigateToPath(path)
  \/ \E key \in NavigationKeys : handleKeyDown(key)
  \/ \E newComment \in Comments : handleCommentChange(newComment)
  \/ \E path \in Paths(tree) : ClickPromote(path)

\* moves, comments and promotions, and navigation by mouse and keyboard
SpecKeys == Init /\ [][NextKeys]_vars

(***************************************************************************)
(* Properties of the Tree Editor.  In an action formula the unprimed       *)
(* variables are the state the handler ran in and the primed ones the      *)
(* state after the render and the effects it caused; `last` names the      *)
(* handler.                                                                *)
(***************************************************************************)
\* the index of the last step of a non-empty path
LastIndex(path) == path[Len(path)]

\* C3: a legal drop whose SAN a child of the current node already has leaves
\* the tree as it is (so the children keep their number, order and content)
\* and moves the path to the current path followed by the index of the first
\* such child
DuplicateConvergence ==
  [][LET children == getNode(currentPath, tree).children
     IN (/\ last'.op = "drop"
         /\ last'.san # Null
         /\ \E i \in 1..Len(children) : children[i].san = last'.san)
        => /\ tree' = tree
           /\ \E i \in 1..Len(children) :
                 /\ children[i].san = last'.san
                 /\ \A j \in 1..(i - 1) : children[j].san # last'.san
                 /\ currentPath' = Append(currentPath, i - 1)]_vars

\* a drop has converged on a child that is not the main line
ConvergedOnVariation ==
  /\ last.op = "drop"
  /\ last.result = "existing"
  /\ LastIndex(currentPath) >= 1

\* C4: a legal drop whose SAN no child of the current node has appends one
\* childless node with that SAN after the children there were, which keep
\* their indices and subtrees; nothing else in the tree changes, and the
\* path becomes the current path followed by the new last index
NewChildAppended ==
  [][LET parentNode == getNode(currentPath, tree)
         old == parentNode.children
     IN (/\ last'.op = "drop"
         /\ last'.san # Null
         /\ \A i \in 1..Len(old) : old[i].san # last'.san)
        => /\ ValidPath(currentPath, tree')
           /\ LET new == getNode(currentPath, tree').children
              IN /\ Len(new) = Len(old) + 1
                 /\ SubSeq(new, 1, Len(old)) = old
                 /\ new[Len(new)].san = last'.san
                 /\ new[Len(new)].children = <<>>
                 /\ tree' = ReplaceAt(tree, currentPath,
                                      [parentNode EXCEPT !.children = new])
                 /\ TreeSize(tree') = TreeSize(tree) + 1
                 /\ currentPath' = Append(currentPath, Len(old))]_vars

\* a drop has added a node after an older sibling that has a child of its own
AppendedAfterSibling ==
  /\ last.op = "drop"
  /\ last.result = "new"
  /\ LastIndex(currentPath) >= 1
  /\ getNode(ParentPath(currentPath), tree).children[1].children # <<>>

\* C5: a drop that is no legal move in the position of the current path
\* changes neither the tree nor the path nor the comment buffer, and the
\* component goes on
IllegalMoveRejected ==
  [][(last'.op = "drop" /\ ~LegalSan(gameFen, last'.san))
     => /\ tree' = tree
        /\ currentPath' = currentPath
        /\ comment' = comment
        /\ crashed' = crashed]_vars

\* an illegal drop has been tried away from the root, on a commented move
IllegalDropOnCommentedMove ==
  /\ last.op = "drop"
  /\ last.result = "illegal"
  /\ currentPath # <<>>
  /\ comment = "good"
  /\ getNode(currentPath, tree).comment = "good"

\* C6: after a legal drop the path is the current path followed by the index
\* of the child carrying the dropped SAN, and the comment buffer holds that
\* child's comment, which is empty when the child is new
PathAndCommentAfterInsert ==
  [][LET old == getNode(currentPath, tree).children
     IN (last'.op = "drop" /\ last'.san # Null)
        => /\ ValidPath(currentPath', tree')
           /\ currentPath' # <<>>
           /\ ParentPath(currentPath') = currentPath
           /\ getNode(currentPath', tree').san = last'.san
           /\ comment' = getNode(currentPath', tree').comment
           /\ ((\A i \in 1..Len(old) : old[i].san # last'.san) => comment' = "")]_vars

\* a drop has converged on a commented variation and the buffer shows its
\* comment
BufferShowsExistingComment ==
  /\ last.op = "drop"
  /\ last.result = "existing"
  /\ comment = "good"
  /\ LastIndex(currentPath) >= 1

\* C7: promoting the child at index k > 0 puts it, subtree and all, at index
\* 0, followed by the other children in their old order; nothing else in
\* the tree changes
PromotionOrder ==
  [][(last'.op = "promote" /\ LastIndex(last'.path) > 0)
     => LET parentPath == ParentPath(last'.path)
            k == LastIndex(last'.path)
            parentNode == getNode(parentPath, tree)
            old == parentNode.children
            new == <<old[k + 1]>> \o SubSeq(old, 1, k) \o SubSeq(old, k + 2, Len(old))
        IN tree' = ReplaceAt(tree, parentPath, [parentNode EXCEPT !.children = new])]_vars

\* the third of three children has been promoted
PromotedThirdChild ==
  /\ last.op = "promote"
  /\ last.result = "promoted"
  /\ LastIndex(last.path) = 2

\* C8: promoting a node whose last path index is 0 changes nothing: the tree,
\* and with it the node at that path, the navigation path and the comment
\* buffer stay as they are
PromoteMainLineNoOp ==
  [][(last'.op = "promote" /\ LastIndex(last'.path) = 0)
     => /\ tree' = tree
        /\ currentPath' = currentPath
        /\ comment' = comment
        /\ pgnInput' = pgnInput]_vars

\* a main line with a variation beside it has been promoted while another
\* node was current
PromotedMainLine ==
  /\ last.op = "promote"
  /\ last.result = "mainline"
  /\ currentPath # last.path
  /\ Len(getNode(ParentPath(last.path), tree).children) >= 2

\* C9: after the promotion of the node at [...parentPath, k], k > 0, the
\* navigation path is [...parentPath, 0] and resolves to the promoted node
PromotedNodeIsCurrent ==
  [][(last'.op = "promote" /\ LastIndex(last'.path) > 0)
     => /\ currentPath' = Append(ParentPath(last'.path), 0)
        /\ ValidPath(currentPath', tree')
        /\ getNode(currentPath', tree') = getNode(last'.path, tree)]_vars

\* a variation with a continuation has been promoted below the root's level
\* while another node was current
PromotedSubtreeIsCurrent ==
  /\ last.op = "promote"
  /\ last.result = "promoted"
  /\ getNode(currentPath, tree).children # <<>>

\* C10: the deletion at a valid non-empty path takes the node out of its
\* parent's children; every sibling stays, with its subtree and in the old
\* order.  The path resolves afterwards exactly when the node had a later
\* sibling, and then to the first of them
DeletionRemovesSubtree ==
  [][(last'.op = "delete" /\ last'.result = "deleted")
     => LET path == last'.path
            parentPath == ParentPath(path)
            k == LastIndex(path)
            old == getNode(parentPath, tree).children
        IN /\ ValidPath(parentPath, tree')
           /\ LET new == getNode(parentPath, tree').children
              IN /\ Len(new) = Len(old) - 1
                 /\ \A i \in 1..k : new[i] = old[i]
                 /\ \A i \in (k + 2)..Len(old) : new[i - 1] = old[i]
           /\ ValidPath(path, tree') <=> k + 1 < Len(old)
           /\ ValidPath(path, tree') => getNode(path, tree') = old[k + 2]]_vars

\* C10 as stated: after a deletion the deleted path no longer resolves
DeletedPathFails ==
  [][(last'.op = "delete" /\ last'.result = "deleted")
     => ~ValidPath(last'.path, tree')]_vars

\* a node with a later sibling has been deleted, and its path resolves to
\* that sibling
DeletedPathResolvesToSibling ==
  /\ last.op = "delete"
  /\ last.result = "deleted"
  /\ ValidPath(last.path, tree)
  /\ TreeSize(tree) >= 1

\* C12: after a confirmed deletion at a path the navigation path is that path
\* without its last index, wherever the navigation was before
NavigationAfterDelete ==
  [][(last'.op = "delete" /\ last'.result # "cancelled")
     => /\ ~crashed'
        /\ currentPath' = SubSeq(last'.path, 1, Len(last'.path) - 1)]_vars

\* a move below the first level has been deleted, so that the navigation
\* stands on a move and not on the root, in a tree that keeps another line
ParentOfDeletedIsCurrent ==
  /\ last.op = "delete"
  /\ last.result = "deleted"
  /\ Len(last.path) >= 2
  /\ currentPath = SubSeq(last.path, 1, Len(last.path) - 1)
  /\ Len(tree.children) >= 2

\* C13: a comment edit leaves the tree's shape, every node's san, fen and
\* ply and the order of its children as they are, changes no comment but
\* that of the node at the current path, which becomes the text typed, and
\* leaves the navigation path where it is
CommentFrame ==
  [][last'.op = "comment"
     => /\ currentPath' = currentPath
        /\ Paths(tree') = Paths(tree)
        /\ \A path \in Paths(tree) :
              LET old == getNode(path, tree)
                  new == getNode(path, tree')
              IN /\ new.san = old.san
                 /\ new.fen = old.fen
                 /\ new.ply = old.ply
                 /\ Len(new.children) = Len(old.children)
                 /\ \A i \in 1..Len(old.children) :
                       new.children[i].san = old.children[i].san
                 /\ new.comment = IF path = currentPath /\ ~crashed'
                                  THEN comment' ELSE old.comment]_vars

\* a comment has been written on a variation while the tree has other moves
CommentedVariation ==
  /\ last.op = "comment"
  /\ currentPath # <<>>
  /\ LastIndex(currentPath) >= 1
  /\ getNode(currentPath, tree).comment = "good"
  /\ TreeSize(tree) >= 3

(***************************************************************************)
(* Properties of the PGN codec.                                            *)
(***************************************************************************)
\* C1: when the Load PGN button is pressed on the text the encoder wrote for
\* a tree of at least one move, built by drops from a fresh root, the decode
\* succeeds and installs a tree equal to it node for node (SAN, comment,
\* position, ply and children order at every path) at the same starting
\* position
RoundTrip ==
  [][(/\ last'.op = "load"
      /\ pgnInput = FullPgn(tree, currentStartingFen)
      /\ TreeSize(tree) > 0)
     => /\ last'.result = "loaded"
        /\ tree' = tree
        /\ currentStartingFen' = currentStartingFen]_vars

\* C1 as stated, the tree without moves included: the decode of the
\* encoder's text always succeeds and gives the tree back
RoundTripOfEveryTree ==
  [][(last'.op = "load" /\ pgnInput = FullPgn(tree, currentStartingFen))
     => (last'.result = "loaded" /\ tree' = tree)]_vars

\* a tree with a variation at the root, played from a position with Black
\* to move, has been loaded from its own text
LoadedOwnTextWithVariation ==
  /\ last.op = "load"
  /\ last.result = "loaded"
  /\ currentStartingFen = FenB
  /\ Len(tree.children) >= 2
  /\ TreeSize(tree) >= 3

DecodedText == IF last'.op = "load" THEN pgnInput ELSE startingPgn'

\* a decode attempt has run in this step
DecodeStep == last'.op \in {"load", "props", "onError"} /\ DecodedText # <<>>

\* the decode of this step has installed a tree and the component goes on
DecodeSucceeded == DecodeStep /\ last'.result = "loaded" /\ ~crashed'

\* the tree the decode of this step builds from its text
DecodedTree ==
  IF last'.op = "load" THEN loadPgnFromString(pgnInput).tree
  ELSE startingPgnEffect(startingPgn', startingFen').tree

\* the position header of the text, Null if it has none
HeaderOf(text) == parse(text).tags.FEN

\* the position a decode starts from: the header's if the text has one,
\* else the startingFen prop if one is supplied, else the standard one
EffectiveFen ==
  IF HeaderOf(DecodedText) # Null THEN Fen(HeaderOf(DecodedText), <<>>)
  ELSE IF startingFen' # NoFen THEN startingFen'
  ELSE StandardFen

\* C14 as stated: once a successful decode and the effects it sets off have
\* run, the tree is the tree built from the text and the navigation path is
\* empty
DecodedTreeReplacesTree ==
  [][DecodeSucceeded => (tree' = DecodedTree /\ currentPath' = <<>>)]_vars

\* C15 as stated: after a successful decode the root's fen and the starting
\* position are the header's position if the text has one, else the
\* startingFen prop if one is supplied, else the standard position
EffectiveStartingPosition ==
  [][DecodeSucceeded
     => (tree'.fen = EffectiveFen /\ currentStartingFen' = EffectiveFen)]_vars

\* the tree when the decode of this step contributes nothing: the tree
\* before, or the fresh root the startingFen effect of the same render
\* installs for a new startingFen prop
TreeWithoutDecode ==
  IF ~crashed' /\ startingFen' # NoFen /\ startingFen' # currentStartingFen
  THEN Root(startingFen') ELSE tree

\* the starting position when the decode of this step contributes nothing
StartWithoutDecode ==
  IF ~crashed' /\ startingFen' # NoFen /\ startingFen' # currentStartingFen
  THEN startingFen' ELSE currentStartingFen

\* the parser finds moves in the text
HasMoves(text) == parse(text).status = "ok" /\ parse(text).moves # <<>>

\* the text has moves and a valid position header that differs from the
\* startingFen prop supplied
HeaderConflict ==
  /\ HasMoves(DecodedText)
  /\ HeaderOf(DecodedText) # Null
  /\ ValidFen(Fen(HeaderOf(DecodedText), <<>>))
  /\ startingFen' # NoFen
  /\ startingFen' # Fen(HeaderOf(DecodedText), <<>>)

\* C16 as stated: a decode of a text whose valid header differs from the
\* startingFen prop supplied reports fen_pgn_conflict and contributes nothing
\* to the tree; with a header equal to the prop no conflict is reported
ConflictDetected ==
  [][DecodeStep
     => /\ HeaderConflict
           => (last'.error = "fen_pgn_conflict" /\ tree' = TreeWithoutDecode)
        /\ (/\ HeaderOf(DecodedText) # Null
            /\ startingFen' = Fen(HeaderOf(DecodedText), <<>>))
           => last'.error # "fen_pgn_conflict"]_vars

\* C17 as stated: a decode of a text whose header is no valid position
\* reports invalid_fen_in_pgn and changes neither the tree nor the starting
\* position
InvalidHeaderReported ==
  [][(/\ DecodeStep
      /\ HasMoves(DecodedText)
      /\ HeaderOf(DecodedText) # Null
      /\ ~ValidFen(Fen(HeaderOf(DecodedText), <<>>)))
     => /\ last'.error = "invalid_fen_in_pgn"
        /\ tree' = TreeWithoutDecode
        /\ currentStartingFen' = StartWithoutDecode]_vars

\* C18 as stated: a decode of a text whose first move is illegal from the
\* effective starting position reports invalid_pgn_moves and contributes
\* nothing to the tree
IllegalFirstMoveReported ==
  [][(/\ DecodeStep
      /\ HasMoves(DecodedText)
      /\ ValidFen(EffectiveFen)
      /\ ~HeaderConflict
      /\ ~LegalSan(EffectiveFen, NotationSan(parse(DecodedText).moves[1].notation)))
     => /\ last'.error = "invalid_pgn_moves"
        /\ tree' = TreeWithoutDecode]_vars

\* a decode is attempted: the Load PGN button is pressed, or the startingPgn
\* effect runs on a text
DecodeAttempt ==
  \/ last'.op = "load"
  \/ last'.op \in {"props", "onError"} /\ startingPgn' # <<>>

\* C19 as stated: a decode of a text in which the parser finds nothing or no
\* move, the empty text included, fails, reports an error and contributes
\* nothing to the tree
NoMovesReported ==
  [][(DecodeAttempt /\ parse(DecodedText).status # "throw" /\ ~HasMoves(DecodedText))
     => /\ last'.result # "loaded"
        /\ last'.error # "none"
        /\ tree' = TreeWithoutDecode]_vars

\* the error types of a notification
ErrorTypes ==
  {"invalid_pgn", "invalid_fen_in_pgn", "fen_pgn_conflict", "invalid_pgn_moves",
   "pgn_parse_error"}

\* C20 as stated: every decode that fails and every Load FEN of an invalid
\* position reports an error of one of the five types
NoSilentFailure ==
  [][((DecodeAttempt \/ last'.op = "loadFen") /\ last'.result # "loaded")
     => last'.error \in ErrorTypes]_vars

RECURSIVE Heads(_)
RECURSIVE HeadsOfAll(_)
\* the number of children a line of moves gives the node it is decoded on:
\* its first move and the first moves of that move's variations, theirs
\* included
Heads(moves) ==
  IF moves = <<>> THEN 0 ELSE 1 + HeadsOfAll(Head(moves).variations)
HeadsOfAll(variations) ==
  IF variations = <<>> THEN 0
  ELSE Heads(Head(variations)) + HeadsOfAll(Tail(variations))

RECURSIVE Decoded(_, _, _)
RECURSIVE DecodedAll(_, _, _)
\* the line `moves` stands in the tree with its first move at child k of
\* `parent`: the variations of that move follow it among the children of
\* `parent`, in textual order, and the rest of the line makes up the
\* children of the move's node, from its first child on
Decoded(parent, k, moves) ==
  IF moves = <<>> THEN TRUE
  ELSE IF k > Len(parent.children) THEN FALSE
  ELSE LET node == parent.children[k]
       IN /\ node.san = NotationSan(Head(moves).notation)
          /\ node.ply = parent.ply + 1
          /\ Len(node.children) = Heads(Tail(moves))
          /\ Decoded(node, 1, Tail(moves))
          /\ DecodedAll(parent, k + 1, Head(moves).variations)
DecodedAll(parent, k, variations) ==
  IF variations = <<>> THEN TRUE
  ELSE /\ Decoded(parent, k, Head(variations))
       /\ DecodedAll(parent, k + Heads(Head(variations)), Tail(variations))

NotificationMatchesTree ==
  ~crashed => lastPgnChange = FullPgn(tree, currentStartingFen)

\* a promotion has just reordered two first moves and was notified
PromotionNotified ==
  /\ last.op = "promote"
  /\ last.result = "promoted"
  /\ ~crashed
  /\ Len(tree.children) = 2
  /\ lastPgnChange = FullPgn(tree, currentStartingFen)

\* C23: the encoded text always ends with a result token.  No move text
\* the encoder writes ends in one itself (it ends in a SAN, a closing brace
\* or a closing parenthesis), so the text of every tree ends with the
\* termination marker, and the text of a tree without moves is the marker
\* alone after the header, if there is one.
EndsWithResultToken ==
  ~crashed =>
     /\ lastPgnChange[Len(lastPgnChange)] = "*"
     /\ tree.children = <<>> =>
            lastPgnChange = (IF currentStartingFen # StandardFen
                             THEN <<FenTag(currentStartingFen.base), Nl>>
                             ELSE <<>>) \o <<Sp, "*">>

\* C24: the encoded text begins with the header line of the current
\* starting position exactly when that position is not the standard one,
\* and the text of an empty tree on the standard position is " *".
HeaderIffNotStandard ==
  ~crashed =>
     /\ Head(lastPgnChange) \in TagAtoms <=> currentStartingFen # StandardFen
     /\ currentStartingFen # StandardFen =>
            SubSeq(lastPgnChange, 1, 2) = <<FenTag(currentStartingFen.base), Nl>>
     /\ (currentStartingFen = StandardFen /\ tree.children = <<>>) =>
            lastPgnChange = <<Sp, "*">>

\* a game with moves was loaded on a position that is not the standard one
LoadedGameOnOtherPosition ==
  /\ last.op = "load"
  /\ last.result = "loaded"
  /\ currentStartingFen = FenX
  /\ tree.children # <<>>
  /\ Head(lastPgnChange) = FenTag("X")

\* the tokens of a text: what is left without the spaces, the header line
\* and the termination marker
Tokens(text) == SelectSeq(text, LAMBDA a : a \notin {Sp, Nl, "*"} \cup TagAtoms)

\* the bracketed comment of a node, nothing when the comment is empty
Bracketed(node) == IF node.comment = "" THEN <<>> ELSE <<"{", node.comment, "}">>

RECURSIVE MoveTokens(_)
RECURSIVE VariationTokens(_, _)
\* the parenthesised lines of children[i], children[i+1], ... of a node
VariationTokens(n, i) ==
  IF i > Len(n.children) THEN <<>>
  ELSE <<"(">>
       \o (IF n.children[i].ply % 2 = 1
           THEN <<ToString((n.children[i].ply \div 2) + 1) \o "...">> ELSE <<>>)
       \o <<n.children[i].san>> \o Bracketed(n.children[i])
       \o MoveTokens(n.children[i])
       \o <<")">>
       \o VariationTokens(n, i + 1)

\* the move text of a node as the ordering rule gives it
MoveTokens(n) ==
  IF n.children = <<>> THEN <<>>
  ELSE (IF n.children[1].ply % 2 = 0
        THEN <<ToString((n.children[1].ply \div 2) + 1) \o ".">> ELSE <<>>)
       \o <<n.children[1].san>> \o Bracketed(n.children[1])
       \o VariationTokens(n, 2)
       \o MoveTokens(n.children[1])

\* the tree of e4 answered by e5 and nothing else
IsE4E5(t) ==
  /\ Len(t.children) = 1
  /\ t.children[1].san = "e4" /\ t.children[1].comment = ""
  /\ Len(t.children[1].children) = 1
  /\ t.children[1].children[1].san = "e5"
  /\ t.children[1].children[1].comment = ""
  /\ t.children[1].children[1].children = <<>>

\* C25: the tokens of the encoded text are, for every node with children,
\* the move number before children[0] when its ply is even, its san and
\* bracketed comment, then each further child in index order as a
\* parenthesised line (numbered "n..." when its ply is odd), and only then
\* the text of children[0]; e4 answered by e5 encodes to "1. e4 e5 *".
EncoderOrdering ==
  ~crashed =>
     /\ Tokens(lastPgnChange) = MoveTokens(tree)
     /\ IsE4E5(tree) => lastPgnChange = <<"1.", Sp, "e4", Sp, "e5", Sp, "*">>

\* a black variation of the reply to the first move, written with "1..."
\* between the reply and the end of the text
BlackVariationEncoded ==
  /\ ~crashed
  /\ Len(tree.children) = 1
  /\ Len(tree.children[1].children) = 2
  /\ Tokens(lastPgnChange)
       = <<"1.", tree.children[1].san, tree.children[1].children[1].san,
           "(", "1...", tree.children[1].children[2].san, ")">>

(***************************************************************************)
(* The PGN box.                                                            *)
(***************************************************************************)
\* C26: typing into the PGN box changes the text of the box and nothing
\* else: not the tree, the starting position or the current path.  A text
\* becomes a tree only by Load PGN or a change of the props: a step that
\* gives the tree the decoding of a text is one of those two.
TypingLoadsNothing ==
  [][/\ last'.op = "type" =>
          /\ tree' = tree
          /\ currentStartingFen' = currentStartingFen
          /\ currentPath' = currentPath
          /\ lastPgnChange' = lastPgnChange
     /\ (tree' # tree /\ last'.op \notin {"loadFen"}) =>
          last'.op \in {"load", "props", "onError"}]_vars

\* a text that decodes to a game other than the tree's is in the box, typed
TypedGameNotLoaded ==
  /\ last.op = "type"
  /\ pgnInput = TextVariation
  /\ tree.children = <<>>
  /\ loadPgnFromString(pgnInput).kind = "loaded"

(***************************************************************************)
(* Paths that address no node.                                             *)
(***************************************************************************)
\* C27: a deletion or promotion addressed at a path with an index that is
\* out of range in the tree is rejected: the component keeps running and
\* neither the tree nor the current path changes.
OutOfRangeRejected ==
  [][(/\ contextMenu.open
      /\ ~ValidPath(contextMenu.path, tree)
      /\ last'.op \in {"delete", "promote"})
     => (/\ ~crashed'
         /\ tree' = tree
         /\ currentPath' = currentPath)]_vars

(***************************************************************************)
(* Load FEN and the starting position.                                     *)
(***************************************************************************)
\* C28: after Load FEN with a valid position P and the effects it sets
\* off, the tree is a lone root on P, the starting position is P and the
\* current path is the root, whatever the startingFen prop is; with an
\* invalid position the three are unchanged.
LoadFenResult ==
  [][\A P \in FenInputs :
        handleLoadFen(P) =>
           IF ValidFen(P)
           THEN /\ ~crashed'
                /\ tree' = Root(P)
                /\ currentStartingFen' = P
                /\ currentPath' = <<>>
           ELSE /\ tree' = tree
                /\ currentStartingFen' = currentStartingFen
                /\ currentPath' = currentPath]_vars

\* C29: the position stored in the root is the current starting position,
\* the one replay starts from and the encoder writes in the header.
RootFenIsStartingPosition ==
  ~crashed => tree.fen = currentStartingFen

\* C30: replaying the SANs along the current path from the current
\* starting position succeeds at every step, and ends in the position
\* stored on the node at the current path.
ReplayMatchesStoredFen ==
  ~crashed =>
     /\ ValidPath(currentPath, tree)
     /\ ReplayOk(currentPath, tree, currentStartingFen)
     /\ getFenForPath(currentPath, tree, currentStartingFen)
          = getNode(currentPath, tree).fen

(***************************************************************************)
(* Invariants of the tree.                                                 *)
(***************************************************************************)
RECURSIVE DistinctSans(_)
\* no two children of a node of the subtree have the same SAN
DistinctSans(n) ==
  /\ \A i, j \in 1..Len(n.children) :
        i # j => n.children[i].san # n.children[j].san
  /\ \A i \in 1..Len(n.children) : DistinctSans(n.children[i])

\* C31: no two children of the same parent share the same SAN, whatever
\* moves, deletions, promotions, comments and decoded games built the tree.
NoDuplicateSiblings == ~crashed => DistinctSans(tree)

RECURSIVE FensReplay(_)
\* every node below n stores the position its san gives from its parent's
FensReplay(n) ==
  \A i \in 1..Len(n.children) :
     /\ LegalSan(n.fen, n.children[i].san)
     /\ n.children[i].fen = FenAfter(n.fen, n.children[i].san)
     /\ FensReplay(n.children[i])

RECURSIVE PliesCount(_)
\* every node below n has a san and the ply of its parent plus one
PliesCount(n) ==
  \A i \in 1..Len(n.children) :
     /\ n.children[i].san # Null
     /\ n.children[i].ply = n.ply + 1
     /\ PliesCount(n.children[i])

\* C33: the root has san null and ply -1, every other node has a san, and
\* the ply of a child is the ply of its parent plus one, so the node at the
\* current path has ply = length of the path - 1.
PlyIsDepth ==
  ~crashed =>
     /\ tree.san = Null
     /\ tree.ply = -1
     /\ PliesCount(tree)
     /\ getNode(currentPath, tree).ply = Len(currentPath) - 1

\* the first move was deleted with its reply and another line took its place
DeletedMainLineWithReply ==
  /\ last.op = "delete"
  /\ last.result = "deleted"
  /\ last.path = <<0>>
  /\ Len(tree.children) = 1
  /\ Len(tree.children[1].children) = 1

RECURSIVE EvenIsWhite(_)
\* below n, the nodes of even ply are the moves White made
EvenIsWhite(n) ==
  \A i \in 1..Len(n.children) :
     /\ (n.children[i].ply % 2 = 0) <=> (Turn(n.fen) = "w")
     /\ EvenIsWhite(n.children[i])

\* C34: a node has even ply exactly when White made its move, on every
\* valid starting position, those with Black to move included.
EvenPlyIsWhite == ~crashed => EvenIsWhite(tree)

\* C35: the current path resolves to a node of the tree, and the component
\* never stops on a path that does not.
PathResolves == ~crashed /\ ValidPath(currentPath, tree)

\* the node the user was on has just been deleted, below the first move
DeletedCurrentNode ==
  /\ last.op = "delete"
  /\ last.result = "deleted"
  /\ Len(last.path) = 2
  /\ currentPath = <<last.path[1]>>
  /\ ~ValidPath(last.path, tree)

(***************************************************************************)
(* The comment box.                                                        *)
(***************************************************************************)
\* C36: once a move, a navigation, a deletion, a promotion, a decoded game
\* or a loaded position has settled, the comment box shows the comment of
\* the node at the current path of the current tree.
CommentBoxShowsCurrentNode ==
  [][(/\ last'.op \in {"drop", "navigate", "delete", "promote", "load",
                       "loadFen", "props"}
      /\ ~crashed')
     => comment' = getNode(currentPath', tree').comment]_vars

(***************************************************************************)
(* Deletion as a splice.                                                   *)
(***************************************************************************)
\* C37: a deletion at [...parentPath, k] leaves the parent with its old
\* children less the one at k: those before k keep their index, those
\* after k move down by one in the old order (after a deletion at index 0
\* the former first variation is the main line), each with its subtree as
\* it was; putting the old children back gives the old tree, so nothing
\* else in the tree changed, nor did the starting position.
DeleteIsSplice ==
  [][(last'.op = "delete" /\ last'.result = "deleted")
     => LET parentPath == ParentPath(last'.path)
            k == LastIndex(last'.path)
            old == getNode(parentPath, tree).children
        IN /\ ~crashed'
           /\ ValidPath(parentPath, tree')
           /\ LET new == getNode(parentPath, tree').children
              IN /\ Len(new) = Len(old) - 1
                 /\ \A i \in 1..Len(new) : new[i] = IF i <= k THEN old[i] ELSE old[i + 1]
                 /\ (k = 0 /\ Len(old) >= 2) => new[1] = old[2]
           /\ ReplaceAt(tree', parentPath, getNode(parentPath, tree)) = tree
           /\ currentStartingFen' = currentStartingFen]_vars

\* the reply on the main line was deleted and the other reply took its place
VariationBecameMainLine ==
  /\ last.op = "delete"
  /\ last.result = "deleted"
  /\ last.path = <<0, 0>>
  /\ Len(tree.children) = 1
  /\ Len(tree.children[1].children) = 1

(***************************************************************************)
(* When the startingPgn prop is decoded.                                   *)
(***************************************************************************)
\* C38: while startingPgn and startingFen keep their values the prop is
\* not decoded again: a render of the embedding application with a new
\* error callback reports nothing, stops nothing and leaves the tree, the
\* starting position and the current path as the user made them.
DecodedOnlyOnPropChange ==
  [][last'.op = "onError"
     => /\ ~crashed'
        /\ last'.error = "none"
        /\ tree' = tree
        /\ currentStartingFen' = currentStartingFen
        /\ currentPath' = currentPath]_vars

(***************************************************************************)
(* Navigation.                                                             *)
(***************************************************************************)
\* C39: a click on a move and the navigation keys change neither the tree
\* nor the starting position (nor the text last notified).  The click goes
\* to the path clicked; previous-move drops the last index and does
\* nothing at the root; next-move appends index 0 and does nothing at a
\* leaf; jump-to-start goes to the root; jump-to-end goes to the all-zero
\* path that ends in a leaf.
NavigationFrame ==
  [][last'.op \in {"navigate", "key"}
     => /\ ~crashed'
        /\ tree' = tree
        /\ currentStartingFen' = currentStartingFen
        /\ lastPgnChange' = lastPgnChange
        /\ last'.op = "navigate" => currentPath' = last'.path
        /\ (last'.op = "key" /\ last'.result = "previousMove") =>
              currentPath' = IF currentPath = <<>> THEN <<>>
                             ELSE SubSeq(currentPath, 1, Len(currentPath) - 1)
        /\ (last'.op = "key" /\ last'.result = "nextMove") =>
              currentPath' = IF getNode(currentPath, tree).children = <<>>
                             THEN currentPath ELSE currentPath \o <<0>>
        /\ (last'.op = "key" /\ last'.result = "jumpToStart") => currentPath' = <<>>
        /\ (last'.op = "key" /\ last'.result = "jumpToEnd") =>
              /\ \A i \in 1..Len(currentPath') : currentPath'[i] = 0
              /\ ValidPath(currentPath', tree)
              /\ getNode(currentPath', tree).children = <<>>]_vars

\* jump-to-end from a first-level variation, in a tree whose main line is
\* two moves long
JumpedToEndOfMainLine ==
  /\ last.op = "key"
  /\ last.result = "jumpToEnd"
  /\ last.path = <<1>>
  /\ currentPath = <<0, 0>>

====
